---- MODULE Spec2Model ----
(***************************************************************************)
(* Code Line Counter (src/src/extension.ts): the workspaceState object,    *)
(* its asynchronous initialize, its two event handlers and the             *)
(* workspace-count command, over a small file system.                      *)
(***************************************************************************)
EXTENDS Integers, Sequences, FiniteSets, TLC

(* ----------------------------- bounds --------------------------------- *)
\* initialize calls that may be awaiting their enumeration at once
MaxInFlight == 2
\* steps of the environment after start-up: file-system mutations, editor
\* events and command invocations
MaxSteps == 3
\* length of the texts given to the line counter alone
MaxTextLen == 4

(* ------------------------- texts and files ---------------------------- *)
WhiteSpace == {" ", "\t", "\r", "\n"}

\* the files of the workspace folder; a file's relative path is its name
GitignoreName == ".gitignore"
Files == {"a", "x", GitignoreName}
\* a file outside the workspace folder, and the documents of the editor
Outside == "o"
Docs == Files \cup {Outside}
\* a document that is no file (its uri scheme is "untitled")
Untitled == "Untitled-1"

\* workspace folder of the window
Root == "ws"
NoPath == "undefined"

\* contents a file is given in this model
TextEmpty == << >>
TextX == <<"x">>
TextAX == <<"a", "\r", "\n", " ", "\n", "x">>
Texts == {TextEmpty, TextX, TextAX}

\* the characters and the texts given to the line counter alone
Chars == {"a", " ", "\t", "\r", "\n"}
BoundedTexts == UNION {[1..n -> Chars] : n \in 0..MaxTextLen}

Absent == [kind |-> "absent", text |-> << >>]
Unreadable == [kind |-> "unreadable", text |-> << >>]
FileOf(t) == [kind |-> "file", text |-> t]

\* what the disk may hold at a path; the rules file is readable when present
DiskValues(f) ==
    IF f = GitignoreName
    THEN {Absent} \cup {FileOf(t) : t \in Texts}
    ELSE IF f = "a" THEN {Absent, Unreadable} \cup {FileOf(t) : t \in Texts}
    ELSE {Absent} \cup {FileOf(t) : t \in Texts}

\* what the disk holds at a path when the extension is activated
InitialValues(f) == IF f = GitignoreName THEN {Absent} \cup {FileOf(t) : t \in Texts} ELSE {Absent, FileOf(TextX), FileOf(TextAX)}

(* --------------------------- line counter ----------------------------- *)
\* text.split(/\r?\n/): the segments of text[i..], cur being the open segment
RECURSIVE SplitLines(_, _, _)
SplitLines(text, i, cur) ==
    IF i > Len(text) THEN <<cur>>
    ELSE IF text[i] = "\n" THEN <<cur>> \o SplitLines(text, i + 1, << >>)
    ELSE IF text[i] = "\r" /\ i < Len(text) /\ text[i + 1] = "\n"
         THEN <<cur>> \o SplitLines(text, i + 2, << >>)
    ELSE SplitLines(text, i + 1, Append(cur, text[i]))

\* line.trim()
RECURSIVE Trim(_)
Trim(line) ==
    IF line = << >> THEN << >>
    ELSE IF Head(line) \in WhiteSpace THEN Trim(Tail(line))
    ELSE IF line[Len(line)] \in WhiteSpace
         THEN Trim(SubSeq(line, 1, Len(line) - 1))
    ELSE line

\* a faulty countTextLines: the filter is forgotten
countTextLinesUnfiltered(text) == Len(SplitLines(text, 1, << >>))

countTextLines(text) ==
    LET lines == SplitLines(text, 1, << >>)
    IN  Cardinality({k \in 1..Len(lines) : Len(Trim(lines[k])) > 0})

(* ---------------------------- ignore filter --------------------------- *)
\* ig.add(content): one rule per non-blank line of the rules text
IgnoreAdd(content) ==
    LET lines == SplitLines(content, 1, << >>)
    IN  {Trim(lines[k]) : k \in {j \in 1..Len(lines) : Len(Trim(lines[j])) > 0}}

\* path.relative(workspacePath, fsPath): a file of the workspace folder is
\* its name, a file outside of it starts with ".."
RelativePath(f) == IF f \in Files THEN <<f>> ELSE <<"..", "/", f>>

\* the path check of ig.ignores: a path that leaves the folder is refused
\* with a RangeError
NotRelative(rel) == rel # << >> /\ Head(rel) = ".."

\* ig.ignores(relativePath)
ignores(rules, rel) == \E p \in rules : p = rel

\* loadGitignore(workspacePath), reading the disk d
loadGitignore(d) ==
    IF d[GitignoreName].kind = "absent" THEN {}
    ELSE IgnoreAdd(d[GitignoreName].text)

\* getTrackedFiles: findFiles('**/*') over the disk d, filtered by the rules
getTrackedFiles(d, rules) ==
    {f \in Files : d[f].kind # "absent" /\ ~ignores(rules, RelativePath(f))}

\* a faulty countFileLines: a failed read gives -1
countFileLinesSentinel(d, f) ==
    IF d[f].kind = "file" THEN countTextLines(d[f].text) ELSE -1

\* countFileLines: 0 when the read throws
countFileLines(d, f) ==
    IF d[f].kind = "file" THEN countTextLines(d[f].text) ELSE 0

(* ------------------------------- state -------------------------------- *)
VARIABLES
    hasFolders,   \* vscode.workspace.workspaceFolders is defined
    disk,         \* the files of the workspace folder
    phase,        \* "start", "activating" (first initialize awaited), "active"
    path,         \* workspaceState.path
    total,        \* workspaceState.total
    fileCounts,   \* workspaceState.fileCounts, a function on its keys
    ig,           \* workspaceState.ig, the rules it holds
    scans,        \* initialize calls awaiting findFiles: the rules each passed
    statusBar,    \* statusBarItem.text
    message,      \* the last message shown by the workspace-count command
    steps,        \* steps of the environment so far
    lastScan,     \* history: the last completed initialize and the files
                  \* changed since
    batch,        \* history: the initialize calls in flight together
    repeat,       \* history: two initialize calls in a row
    ruleSave,     \* history: the state before a rules-file save
    changeOutcome \* how the last handleDocumentChange ended

state == <<path, total, fileCounts, ig, scans, statusBar>>
history == <<lastScan, batch, repeat, ruleSave>>
vars == <<hasFolders, disk, phase, path, total, fileCounts, ig, scans,
          statusBar, message, steps, lastScan, batch, repeat, ruleSave,
          changeOutcome>>

StatusEmpty == [kind |-> "empty", n |-> 0]
StatusCounting == [kind |-> "counting", n |-> 0]
\* a faulty StatusTotal: the counting text is kept
StatusTotalStuck(n) == StatusCounting

StatusTotal(n) == [kind |-> "total", n |-> n]

MessageNone == [kind |-> "none", n |-> 0]
MessageNoWorkspace == [kind |-> "warning", n |-> 0]
MessageTotal(n) == [kind |-> "information", n |-> n]
MessageNoFile == [kind |-> "no file", n |-> 0]
MessageFileLines(n) == [kind |-> "file lines", n |-> n]
NoEditor == "no editor"

\* a faulty CommandMessage: the check of the workspace path is forgotten
CommandMessageUnchecked(p, tot) == MessageTotal(tot)

\* the message of countWorkspaceLinesCommand
CommandMessage(p, tot) ==
    IF p = NoPath THEN MessageNoWorkspace ELSE MessageTotal(tot)

\* a faulty IsRulesFile: every saved path reinitializes
IsRulesFileAny(p, docPath) == p # NoPath

\* handleDocumentSave: the saved path is the rules file of the workspace
IsRulesFile(p, docPath) == p # NoPath /\ docPath = GitignoreName

\* a faulty ChangeOutcome: the ignore rules are not consulted
ChangeOutcomeUnfiltered(p, rules, f, scheme) ==
    IF p = NoPath \/ scheme # "file" THEN "skipped"
    ELSE IF NotRelative(RelativePath(f)) THEN "threw"
    ELSE "applied"

\* handleDocumentChange up to its update: returns early ("skipped",
\* "ignored"), throws in ig.ignores ("threw") or goes on ("applied")
ChangeOutcome(p, rules, f, scheme) ==
    IF p = NoPath \/ scheme # "file" THEN "skipped"
    ELSE IF NotRelative(RelativePath(f)) THEN "threw"
    ELSE IF ignores(rules, RelativePath(f)) THEN "ignored"
    ELSE "applied"

\* a faulty SetCount: the other entries are reset
SetCountReset(fc, f, n) == [g \in DOMAIN fc \cup {f} |-> IF g = f THEN n ELSE 0]

\* fileCounts with the entry of f set to n
SetCount(fc, f, n) ==
    [g \in DOMAIN fc \cup {f} |-> IF g = f THEN n ELSE fc[g]]

\* this.fileCounts[filePath] ?? countFileLines(filePath)
CachedOrCounted(fc, d, f) ==
    IF f \in DOMAIN fc THEN fc[f] ELSE countFileLines(d, f)

\* the for loop of initialize over filePaths, from the map fc and the total tot
RECURSIVE ScanLoop(_, _, _, _)
ScanLoop(filePaths, fc, tot, d) ==
    IF filePaths = {} THEN [fileCounts |-> fc, total |-> tot]
    ELSE LET f == CHOOSE g \in filePaths : TRUE
             n == CachedOrCounted(fc, d, f)
         IN  ScanLoop(filePaths \ {f}, SetCount(fc, f, n), tot + n, d)

\* a faulty OldCount: the stored count is forgotten
OldCountForgotten(fc, f) == 0

\* workspaceState.fileCounts[filePath] || 0
OldCount(fc, f) ==
    IF f \in DOMAIN fc /\ fc[f] # 0 THEN fc[f] ELSE 0

\* a faulty ResetTotal: the running total is kept
ResetTotalSkipped(tot) == tot

\* this.total = 0, the reset of initialize before its await
ResetTotal(tot) == 0

(* ------------------------------ history ------------------------------- *)
Restrict(fc, S) == [f \in S |-> fc[f]]

LastScanNone == [valid |-> FALSE, total |-> 0, counts |-> << >>, touched |-> {},
                 failed |-> {}]
BatchNone == [overlap |-> FALSE, latestDone |-> TRUE, clean |-> FALSE,
              total |-> 0, counts |-> << >>]
RepeatNone == [stage |-> "none", total |-> 0, fileCounts |-> << >>]
RuleSaveNone == [armed |-> FALSE, file |-> "", total |-> 0, count |-> 0,
                 tracked |-> {}]

\* the files whose single rule the rules newRules add to the rules oldRules
AddedRuleFiles(oldRules, newRules) ==
    {f \in Files : <<f>> \notin oldRules /\ newRules = oldRules \cup {<<f>>}}

HistoryAtStart(newRules) ==
    /\ lastScan' = [lastScan EXCEPT !.valid = FALSE]
    /\ batch' = IF scans = << >>
                THEN [overlap |-> FALSE, latestDone |-> FALSE, clean |-> TRUE,
                      total |-> 0, counts |-> << >>]
                ELSE [batch EXCEPT !.overlap = TRUE, !.latestDone = FALSE]
    /\ repeat' = IF scans # << >> THEN RepeatNone
                 ELSE IF repeat.stage \in {"first", "both"}
                 THEN [repeat EXCEPT !.stage = "second"]
                 ELSE [RepeatNone EXCEPT !.stage = "one"]
    /\ ruleSave' =
         LET added == AddedRuleFiles(ig, newRules)
         IN  IF /\ scans = << >>
                /\ lastScan.valid
                /\ added # {}
                /\ added \subseteq DOMAIN lastScan.counts
             THEN LET f == CHOOSE g \in added : TRUE
                  IN  [armed |-> TRUE, file |-> f, total |-> total,
                       count |-> fileCounts[f],
                       tracked |-> DOMAIN lastScan.counts]
             ELSE RuleSaveNone

HistoryAtResume(i, filePaths) ==
    /\ lastScan' = IF Len(scans) = 1
                   THEN [valid |-> TRUE, total |-> total',
                         counts |-> Restrict(fileCounts', filePaths),
                         touched |-> {},
                         failed |-> {f \in filePaths \ DOMAIN fileCounts :
                                        disk[f].kind # "file"}]
                   ELSE LastScanNone
    /\ batch' = IF ~batch.latestDone /\ i = Len(scans)
                THEN LET alone == ScanLoop(filePaths, fileCounts, 0, disk)
                     IN  [batch EXCEPT !.latestDone = TRUE,
                              !.total = alone.total,
                              !.counts = Restrict(alone.fileCounts, filePaths)]
                ELSE batch
    /\ repeat' = IF repeat.stage = "one"
                 THEN [stage |-> "first", total |-> total',
                       fileCounts |-> fileCounts']
                 ELSE IF repeat.stage = "second"
                 THEN [repeat EXCEPT !.stage = "both"]
                 ELSE RepeatNone
    /\ ruleSave' = RuleSaveNone

HistoryAtChange(f, scheme) ==
    /\ lastScan' = IF lastScan.valid
                   THEN IF scheme = "file" /\ f \in DOMAIN lastScan.counts
                        THEN [lastScan EXCEPT !.touched = @ \cup {f}]
                        ELSE LastScanNone
                   ELSE lastScan
    /\ batch' = [batch EXCEPT !.clean = FALSE]
    /\ repeat' = RepeatNone
    /\ ruleSave' = RuleSaveNone

HistoryAtFsChange ==
    /\ repeat' = RepeatNone
    /\ UNCHANGED <<lastScan, batch, ruleSave>>

Init ==
    /\ hasFolders \in BOOLEAN
    /\ disk \in [Files -> UNION {InitialValues(f) : f \in Files}]
    /\ \A f \in Files : disk[f] \in InitialValues(f)
    /\ phase = "start"
    /\ path = NoPath
    /\ total = 0
    /\ fileCounts = << >>
    /\ ig = {}
    /\ scans = << >>
    /\ statusBar = StatusEmpty
    /\ message = MessageNone
    /\ steps = 0
    /\ lastScan = LastScanNone
    /\ batch = BatchNone
    /\ repeat = RepeatNone
    /\ ruleSave = RuleSaveNone
    /\ changeOutcome = "none"

(* ------------------------------ initialize ---------------------------- *)
\* initialize up to its await: nothing when there is no workspace folder
InitializeStart ==
    IF ~hasFolders
    THEN UNCHANGED <<path, total, ig, scans, statusBar, history>>
    ELSE /\ statusBar' = StatusCounting
         /\ path' = Root
         /\ ig' = loadGitignore(disk)
         /\ total' = ResetTotal(total)
         /\ scans' = Append(scans, ig')
         /\ HistoryAtStart(ig')

\* activate: the commands are registered, the first initialize is awaited
Activate ==
    /\ phase = "start"
    /\ InitializeStart
    /\ phase' = IF hasFolders THEN "activating" ELSE "active"
    /\ UNCHANGED <<hasFolders, disk, fileCounts, message, steps, changeOutcome>>

\* the enumeration of the i-th awaiting initialize resolves: the rest of it
InitializeResume(i) ==
    /\ i \in 1..Len(scans)
    /\ LET filePaths == getTrackedFiles(disk, scans[i])
           r == ScanLoop(filePaths, fileCounts, total, disk)
       IN  /\ fileCounts' = r.fileCounts
           /\ total' = r.total
           /\ statusBar' = StatusTotal(r.total)
           /\ HistoryAtResume(i, filePaths)
    /\ scans' = [k \in 1..(Len(scans) - 1) |->
                    IF k < i THEN scans[k] ELSE scans[k + 1]]
    /\ phase' = "active"
    /\ UNCHANGED <<hasFolders, disk, path, ig, message, steps, changeOutcome>>

(* ------------------------------ handlers ------------------------------ *)
\* onDidSaveTextDocument -> handleDocumentSave(docPath)
DocumentSave(f) ==
    /\ phase = "active"
    /\ steps < MaxSteps
    /\ steps' = steps + 1
    /\ IF IsRulesFile(path, f)
       THEN /\ Len(scans) < MaxInFlight
            /\ InitializeStart
       ELSE UNCHANGED <<path, total, ig, scans, statusBar, history>>
    /\ UNCHANGED <<hasFolders, disk, phase, fileCounts, message, changeOutcome>>

\* onDidChangeTextDocument -> handleDocumentChange(doc), doc.getText() = text
DocumentChange(f, scheme, text) ==
    /\ phase = "active"
    /\ steps < MaxSteps
    /\ steps' = steps + 1
    /\ changeOutcome' = ChangeOutcome(path, ig, f, scheme)
    /\ IF changeOutcome' # "applied" THEN
           UNCHANGED <<total, fileCounts, statusBar>>
       ELSE LET newCount == countTextLines(text)
                oldCount == OldCount(fileCounts, f)
            IN  /\ total' = total + newCount - oldCount
                /\ fileCounts' = SetCount(fileCounts, f, newCount)
                /\ statusBar' = StatusTotal(total')
    /\ HistoryAtChange(f, scheme)
    /\ UNCHANGED <<hasFolders, disk, phase, path, ig, scans, message>>

\* countWorkspaceLinesCommand
CountWorkspaceLinesCommand ==
    /\ phase # "start"
    /\ steps < MaxSteps
    /\ steps' = steps + 1
    /\ message' = CommandMessage(path, total)
    /\ UNCHANGED <<hasFolders, disk, phase, state, history, changeOutcome>>

\* countFileLinesCommand, the active editor showing the file f or none
CountFileLinesCommand(f) ==
    /\ phase # "start"
    /\ message' = IF f = NoEditor THEN MessageNoFile
                  ELSE MessageFileLines(countFileLines(disk, f))
    /\ UNCHANGED <<hasFolders, disk, phase, state, history, steps,
                   changeOutcome>>

(* ----------------------------- environment ---------------------------- *)
\* a file is created or rewritten on disk
FsWrite(f, v) ==
    /\ steps < MaxSteps
    /\ v \in DiskValues(f) \ {Absent}
    /\ disk[f] # v
    /\ disk' = [disk EXCEPT ![f] = v]
    /\ steps' = steps + 1
    /\ HistoryAtFsChange
    /\ UNCHANGED <<hasFolders, phase, state, message, changeOutcome>>

\* a file is deleted from disk
FsDelete(f) ==
    /\ steps < MaxSteps
    /\ disk[f] # Absent
    /\ disk' = [disk EXCEPT ![f] = Absent]
    /\ steps' = steps + 1
    /\ HistoryAtFsChange
    /\ UNCHANGED <<hasFolders, phase, state, message, changeOutcome>>

Next ==
    \/ Activate
    \/ \E i \in 1..MaxInFlight : InitializeResume(i)
    \/ \E f \in Docs : DocumentSave(f)
    \/ \E f \in Docs, text \in Texts : DocumentChange(f, "file", text)
    \/ \E text \in Texts : DocumentChange(Untitled, "untitled", text)
    \/ CountWorkspaceLinesCommand
    \/ \E f \in Files, v \in UNION {DiskValues(g) : g \in Files} : FsWrite(f, v)
    \/ \E f \in Files : FsDelete(f)

Spec == Init /\ [][Next]_vars

(* A workspace whose files change only through the editor: the events of a
   file carry the content the disk holds for it. *)
EditorChange(f) ==
    /\ disk[f].kind = "file"
    /\ DocumentChange(f, "file", disk[f].text)

NextEditor ==
    \/ Activate
    \/ \E i \in 1..MaxInFlight : InitializeResume(i)
    \/ \E f \in Files : DocumentSave(f)
    \/ \E f \in Files : EditorChange(f)
    \/ CountWorkspaceLinesCommand

SpecEditor == Init /\ [][NextEditor]_vars

\* findFiles resolves: an initialize that awaits its enumeration is resumed
EnumerationResolves == WF_vars(\E i \in 1..MaxInFlight : InitializeResume(i))

SpecLive == SpecEditor /\ EnumerationResolves

(* The line counter alone: no workspace is open, one file holds any text of
   the bounded alphabet, and the file-count command shows its count. *)
InitLines ==
    /\ hasFolders = FALSE
    /\ \E t \in BoundedTexts :
          disk = [f \in Files |-> IF f = "a" THEN FileOf(t) ELSE Absent]
    /\ phase = "start"
    /\ path = NoPath
    /\ total = 0
    /\ fileCounts = << >>
    /\ ig = {}
    /\ scans = << >>
    /\ statusBar = StatusEmpty
    /\ message = MessageNone
    /\ steps = 0
    /\ lastScan = LastScanNone
    /\ batch = BatchNone
    /\ repeat = RepeatNone
    /\ ruleSave = RuleSaveNone
    /\ changeOutcome = "none"

NextLines ==
    \/ Activate
    \/ \E f \in {g \in Files : disk[g].kind = "file"} \cup {NoEditor} :
          CountFileLinesCommand(f)

SpecLines == InitLines /\ [][NextLines]_vars

(* ------------------------------ properties ---------------------------- *)
RECURSIVE SumCounts(_, _)
SumCounts(fc, S) ==
    IF S = {} THEN 0
    ELSE LET f == CHOOSE g \in S : TRUE
         IN  fc[f] + SumCounts(fc, S \ {f})

\* no initialize is awaiting its enumeration and the handlers are subscribed
Quiescent == phase = "active" /\ path # NoPath /\ scans = << >>

\* the full rescan of the earlier workspace-count command: the sum of
\* countFileLines over the tracked files
RECURSIVE FullRescanTotal(_, _)
FullRescanTotal(d, filePaths) ==
    IF filePaths = {} THEN 0
    ELSE LET f == CHOOSE g \in filePaths : TRUE
         IN  countFileLines(d, f) + FullRescanTotal(d, filePaths \ {f})

\* C1: at every quiescent point Total equals the sum of all the values
\* stored in the FileCount map.
C1_TotalIsSumOfMap ==
    Quiescent => total = SumCounts(fileCounts, DOMAIN fileCounts)

\* C2: after change events and rules-file saves, every triggered initialize
\* having completed, the Total the workspace-count command reports equals
\* the full rescan: the sum over the enumerated, not excluded files of the
\* non-empty-line count of each file's current content.
C2_CommandAgreesWithRescan ==
    [][(CountWorkspaceLinesCommand /\ Quiescent)
         => message' = MessageTotal(
                FullRescanTotal(disk, getTrackedFiles(disk, ig)))]_vars

\* the sum over the files of S of (count in fc - count in base)
RECURSIVE SumDeltas(_, _, _)
SumDeltas(fc, base, S) ==
    IF S = {} THEN 0
    ELSE LET f == CHOOSE g \in S : TRUE
         IN  (fc[f] - base[f]) + SumDeltas(fc, base, S \ {f})

\* C3: after change events on files tracked by the last completed
\* initialize, none being in flight, Total equals that initialize's Total
\* plus the sum over the touched files of (latest count - count at the scan).
C3_Incrementality ==
    lastScan.valid =>
        total = lastScan.total
                  + SumDeltas(fileCounts, lastScan.counts, lastScan.touched)

C3_Witness ==
    /\ lastScan.valid
    /\ \E f \in lastScan.touched : fileCounts[f] # lastScan.counts[f]

\* C4: when an initialize completes, no path the current rule set excludes
\* is a key of the FileCount map.
C4_NoExcludedKey ==
    [][\A i \in 1..MaxInFlight :
          InitializeResume(i)
            => \A f \in DOMAIN fileCounts' : ~ignores(ig', RelativePath(f))]_vars

\* C5: after the rules file is saved with one added pattern that excludes a
\* tracked file, all other files unchanged, the save starts a scan and every
\* Total reported next (by the completed scan on the status bar, or by the
\* command) is the previous Total minus that file's previous count.
C5_RuleSaveRemovesContribution ==
    [][(/\ ruleSave.armed
        /\ Len(scans) = 1
        /\ getTrackedFiles(disk, scans[1]) = ruleSave.tracked \ {ruleSave.file})
         => /\ InitializeResume(1)
                 => statusBar' = StatusTotal(ruleSave.total - ruleSave.count)
            /\ CountWorkspaceLinesCommand
                 => message' = MessageTotal(ruleSave.total - ruleSave.count)]_vars

\* C6: when initialize calls overlapped, once all have finished Total and
\* the counts are those of the most recently triggered call alone.
C6_LastInitializeWins ==
    (scans = << >> /\ batch.overlap /\ batch.latestDone /\ batch.clean)
      => /\ total = batch.total
         /\ \A f \in DOMAIN batch.counts :
               f \in DOMAIN fileCounts /\ fileCounts[f] = batch.counts[f]

\* C7: while an initialize is in flight the status bar shows only the
\* counting state and the command reports no Total.
C7_NoTotalExposedMidScan ==
    [][/\ scans' # << >> => statusBar'.kind = "counting"
       /\ (CountWorkspaceLinesCommand /\ scans # << >>)
            => message'.kind # "information"]_vars

\* C8: two initialize calls in a row, the first completed before the second
\* starts and nothing else happening from the start of the first to the end
\* of the second, leave the same FileCount map and the same Total.
C8_InitializeIdempotent ==
    repeat.stage = "both"
      => fileCounts = repeat.fileCounts /\ total = repeat.total

C8_Witness ==
    repeat.stage = "both" /\ total > 0 /\ Cardinality(DOMAIN fileCounts) > 1

\* C9: when an initialize completes, the count of every tracked file is the
\* count of the file's content at scan time.
C9_CountsRecomputed ==
    [][\A i \in 1..MaxInFlight :
          InitializeResume(i)
            => \A f \in getTrackedFiles(disk, scans[i]) :
                  fileCounts'[f] = countFileLines(disk, f)]_vars

\* C10: when an initialize completes, the keys of the FileCount map are
\* exactly the files the enumeration returned as tracked.
C10_MapReplaced ==
    [][\A i \in 1..MaxInFlight :
          InitializeResume(i)
            => DOMAIN fileCounts' = getTrackedFiles(disk, scans[i])]_vars

\* C11: a change event is a no-op (FileCount, Total, RootPath and RuleSet
\* unchanged, no Total reported) whenever no RootPath is set or the current
\* RuleSet excludes the changed path, whatever content the event carries.
C11_ChangeNoOp ==
    [][\A f \in Docs, text \in Texts :
          (/\ DocumentChange(f, "file", text)
           /\ (path = NoPath \/ ignores(ig, RelativePath(f))))
            => UNCHANGED <<fileCounts, total, path, ig, statusBar>>]_vars

\* a change event of an excluded file has been handled, counts being held
C11_Witness == changeOutcome = "ignored" /\ total > 0

\* C12: a change event for a path outside RootPath is silently ignored:
\* FileCount and Total are unchanged and the handler completes normally,
\* raising no error.
C12_OutsideSilentlyIgnored ==
    [][\A text \in Texts :
          (DocumentChange(Outside, "file", text) /\ path # NoPath)
            => /\ UNCHANGED <<fileCounts, total>>
               /\ changeOutcome' # "threw"]_vars

\* C13: a save triggers an initialize if and only if a RootPath is set and
\* the saved path is RootPath/.gitignore; for every other saved path, and
\* whenever no RootPath is set, RootPath, RuleSet, FileCount and Total are
\* unchanged (and no scan is started).
C13_SaveReinitializesRulesFileOnly ==
    [][\A f \in Docs :
          DocumentSave(f)
            => IF path # NoPath /\ f = GitignoreName
               THEN /\ scans' = Append(scans, loadGitignore(disk))
                    /\ statusBar' = StatusCounting
                    /\ ig' = loadGitignore(disk)
                    /\ total' = 0
                    /\ UNCHANGED <<path, fileCounts>>
               ELSE UNCHANGED <<path, ig, fileCounts, total, scans,
                                statusBar>>]_vars

\* a save has started a scan that is still awaiting its enumeration
C13_Witness == phase = "active" /\ scans # << >> /\ fileCounts # << >>

\* no workspace folder is open and the first initialize has returned
NoWorkspace == ~hasFolders /\ phase = "active"

SegmentStarts(text) ==
    {1} \cup {j + 1 : j \in {k \in 1..Len(text) : text[k] = "\n"}}

\* the segment that starts at s has a character that is no whitespace
\* before the next LF (the CR of a CRLF is whitespace either way)
NonBlankSegment(text, s) ==
    \E k \in s..Len(text) :
        /\ text[k] \notin WhiteSpace
        /\ \A j \in s..k : text[j] # "\n"

NonBlankSegments(text) ==
    {s \in SegmentStarts(text) : NonBlankSegment(text, s)}

\* C15: countLines is the number of segments of the text, split on LF or
\* CRLF alike, that are non-empty after trimming; the empty and the
\* whitespace-only text give 0, a text without separator gives 1 iff it has a
\* character that is no whitespace.
C15_CountLines ==
    message.kind = "file lines"
      => LET text == disk["a"].text
             blank == \A k \in 1..Len(text) : text[k] \in WhiteSpace
             oneLine == \A k \in 1..Len(text) : text[k] # "\n"
         IN  /\ message.n = Cardinality(NonBlankSegments(text))
             /\ blank => message.n = 0
             /\ oneLine => message.n = (IF blank THEN 0 ELSE 1)

\* the command has counted a text of two lines separated by CRLF
C15_Witness ==
    /\ message = MessageFileLines(2)
    /\ \E k \in 1..(Len(disk["a"].text) - 1) :
          disk["a"].text[k] = "\r" /\ disk["a"].text[k + 1] = "\n"

\* the sum over the readable files of S of the line count of their content
RECURSIVE ReadableTotal(_, _)
ReadableTotal(d, S) ==
    IF S = {} THEN 0
    ELSE LET f == CHOOSE g \in S : TRUE
         IN  (IF d[f].kind = "file" THEN countTextLines(d[f].text) ELSE 0)
               + ReadableTotal(d, S \ {f})

C17_NonNegative ==
    total >= 0 /\ \A f \in DOMAIN fileCounts : fileCounts[f] >= 0

\* C18: for a non-excluded file under RootPath that the last full scan did
\* not see, the first change event uses an old count of 0: Total grows by
\* countLines(content) and the file's entry becomes countLines(content).
C18_UnseenFileOldCountZero ==
    [][\A f \in Files, text \in Texts :
          (/\ DocumentChange(f, "file", text)
           /\ path # NoPath
           /\ ~ignores(ig, RelativePath(f))
           /\ lastScan.valid
           /\ f \notin DOMAIN lastScan.counts)
            => /\ total' = total + countTextLines(text)
               /\ fileCounts'[f] = countTextLines(text)]_vars

\* C19: a change event of a tracked file handled while a reinitialize is in
\* flight is reflected exactly once: when that initialize (the only one in
\* flight) completes, Total is the sum of FileCount over the tracked files.
C19_InFlightChangeCountedOnce ==
    [][(/\ InitializeResume(1)
        /\ Len(scans) = 1
        /\ ~batch.overlap
        /\ ~batch.clean)
         => total' = SumCounts(fileCounts', getTrackedFiles(disk, scans[1]))]_vars

\* C20: an effective change event (root set, path under it and not excluded)
\* modifies only the entry of the changed path and Total, by the new count
\* minus the entry's old value; the other entries, RootPath and RuleSet are
\* unchanged, and so are the disk and the scans in flight.
C20_EffectiveChangeFrame ==
    [][\A f \in Files, text \in Texts :
          (/\ DocumentChange(f, "file", text)
           /\ path # NoPath
           /\ ~ignores(ig, RelativePath(f)))
            => LET newCount == countTextLines(text)
                   old == IF f \in DOMAIN fileCounts THEN fileCounts[f] ELSE 0
               IN  /\ total' = total + newCount - old
                   /\ DOMAIN fileCounts' = DOMAIN fileCounts \cup {f}
                   /\ fileCounts'[f] = newCount
                   /\ \A g \in DOMAIN fileCounts \ {f} :
                          fileCounts'[g] = fileCounts[g]
                   /\ UNCHANGED <<path, ig, disk, scans>>]_vars

\* an effective change event has been handled while other files are counted
C20_Witness ==
    /\ changeOutcome = "applied"
    /\ Cardinality(DOMAIN fileCounts) > 1
    /\ \E f \in DOMAIN fileCounts : fileCounts[f] > 0

\* the status bar shows the value of Total
ReportsTotal == statusBar.kind = "total" /\ statusBar.n = total

====
